---------------------------- MODULE Spec2Model ----------------------------
(***************************************************************************)
(* A model of the detection and black-box evaluation scripts of            *)
(* DeepBayesTorch:                                                         *)
(*   attacks/detect_attacks_logp_v2.py  comp_logp, comp_detect,            *)
(*                                      search_alpha, test_attacks         *)
(*   attacks/detect_attacks_logp.py     comp_detect, search_alpha,         *)
(*                                      test_attacks                       *)
(*   attack_black_box.py                load_model, perform_attacks        *)
(*   models/conv_generator_cifar10_G.py Generator                          *)
(*                                                                         *)
(* Numbers.  The statistics are small integers.  alpha is kept as the      *)
(* integer alpha * AlphaScale: a bisection of [0, 3] to depth MaxSteps     *)
(* only produces multiples of 3 / 2^(MaxSteps+1), which float64 holds      *)
(* exactly, so every comparison of comp_detect is exact.  A rate is a      *)
(* float64, computed as the code computes it, each operation rounded to    *)
(* nearest (ties to even): a float64 is kept as its sign, its significand  *)
(* of 53 binary digits, in digits of base 2^LimbBits, and its exponent.    *)
(*                                                                         *)
(* The two copies of comp_detect and search_alpha differ in the mean they  *)
(* call: np.mean in detect_attacks_logp_v2.py, and torch.mean in           *)
(* detect_attacks_logp.py, which takes no boolean tensor and so raises on  *)
(* the result of every comparison.                                         *)
(*                                                                         *)
(* The functions are modelled from their bodies.  Names a function reads   *)
(* and nothing binds (test_loader in test_attacks, simba in                *)
(* perform_attacks, logsumexp in numpy) raise where they are read.  Line   *)
(* 100 of attack_black_box.py is a leftover conflict marker between        *)
(* load_model and perform_attacks: the file does not compile, so a run or  *)
(* an import of it ends in SyntaxError before any statement, and the       *)
(* bodies of its two functions, modelled as written, are never entered.    *)
(***************************************************************************)
EXTENDS Integers, Sequences, FiniteSets, TLC

VARIABLES
    \* ---- search_alpha / comp_detect (both detection scripts) ----
    s_file,         \* the script whose search_alpha is called
    x_type,         \* the type of x: "ndarray" | "Tensor"
    x,              \* the statistic array, a sequence of integers
    x_mean,         \* its reference mean
    x_std,          \* its reference standard deviation (>= 0)
    target_rate,    \* the wanted detection rate, in percent, a float64
    plus,           \* TRUE: detect above the mean, FALSE: below
    alpha_min,      \* the bracket, each times AlphaScale
    alpha_max,
    alpha_now,
    mask,           \* the boolean array comp_detect last compared
    detect_rate,    \* the rate comp_detect last returned, a float64
    T,              \* the number of bisection steps taken
    s_error,        \* the exception raised, or "none"
    spc,            \* "idle" | "start" | "loop" | "returned" | "raised"
    \* ---- test_attacks (detect_attacks_logp_v2.py) ----
    all_attack,     \* the argument all_attack
    epsilons,       \* the argument epsilons, a sequence
    save,           \* the argument save
    y_clean,        \* one-hot labels, one row per sample (rows from 0)
    y_adv,          \* the victim's outputs on the adversarial samples
    x_clean,        \* the clean images, one pixel each
    x_adv,          \* the adversarial images, one pixel each
    correct_prediction,
    success_rate,   \* a float64
    ind_success,    \* a sequence of row numbers
    diff,           \* x_adv[ind_success] - x_clean[ind_success]
    norms,          \* [l2sq, li, l0]: per-row norms of diff
    results_adv,    \* the rows comp_logp was handed at line 283
    printed,        \* the lines printed so far
    result,         \* the returned dictionary
    saved,          \* the files written
    t_error,        \* the exception raised, or "none"
    tpc,            \* "idle" | "start" | "logits" | "norms" | "logp"
                    \* | "returned" | "raised"
    \* ---- load_model (attack_black_box.py) ----
    l_data_name,    \* the argument data_name
    l_vae_type,     \* the argument vae_type
    l_index,        \* the argument checkpoint_index
    l_cfg,          \* the classes and sizes lines 32-84 select
    l_built,        \* the objects constructed so far
    l_loaded,       \* the checkpoints load_params was handed
    l_error,        \* the exception raised, or "none"
    lpc,            \* "idle" | "start" | "selected" | "built" | "loaded"
                    \* | "returned" | "raised"
    \* ---- perform_attacks (attack_black_box.py) ----
    p_data_name,    \* the argument data_name
    sticker_sizes,  \* the argument sticker_sizes, a sequence
    p_epsilons,     \* the argument epsilons, a sequence
    batch_size,     \* the argument batch_size
    dir_exists,     \* whether save_dir exists
    dir_made,       \* whether os.makedirs(save_dir) has been called
    dataset_loaded, \* whether load_data has been called
    models_loaded,  \* the load_model calls made, in order
    dec,            \* the decoder pair of the current variant
    lowerbound,     \* the lower-bound function of the current variant
    accuracies,     \* variant -> attack -> list of accuracies (fractions)
    params_used,    \* variant -> attack -> the epsilon of each accuracy
    v_idx,          \* position in vae_types, from 1
    i_idx,          \* the loop variable i, from 0
    a_idx,          \* position in attack_methods, from 1
    epsilon,        \* the parameter of the current configuration
    correct,
    total,
    taken,          \* examples the batch loop drew from test_loader
    attacks_run,    \* calls of an attack function that returned
    json_written,   \* whether the JSON file has been written
    p_error,        \* the exception raised, or "none"
    ppc,            \* "idle" | "start" | "variant" | "batch" | "save"
                    \* | "returned" | "raised"
    \* ---- comp_logp (detect_attacks_logp_v2.py) ----
    c_logit,        \* the argument logit, one row of scores per sample
    c_y,            \* the argument y, one one-hot row per sample
    c_dist,         \* the argument comp_logit_dist
    c_results,      \* the returned list
    c_error,        \* the exception raised, or "none"
    cpc,            \* "idle" | "start" | "returned" | "raised"
    \* ---- test_attacks (detect_attacks_logp.py) ----
    d_data_name,    \* the argument data_name
    d_epsilons,     \* the argument epsilons, a sequence
    d_batch_size,   \* the argument batch_size
    d_models,       \* the load_model calls made, in order
    d_dec,          \* the decoder pair of the current variant
    d_lowerbound,   \* the lower-bound function of the current variant
    detection_rate, \* variant -> attack -> list
    d_v_idx,        \* position in vae_types, from 1
    d_e_idx,        \* position in epsilons, from 1
    detected,
    d_total,
    dpc             \* "idle" | "start" | "variant" | "epsilon"
                    \* | "returned"

detectVars == <<d_data_name, d_epsilons, d_batch_size, d_models, d_dec,
                d_lowerbound, detection_rate, d_v_idx, d_e_idx, detected,
                d_total, dpc>>

logpVars == <<c_logit, c_y, c_dist, c_results, c_error, cpc>>

loadVars == <<l_data_name, l_vae_type, l_index, l_cfg, l_built, l_loaded,
              l_error, lpc>>

attackVars == <<p_data_name, sticker_sizes, p_epsilons, batch_size,
                dir_exists, dir_made, dataset_loaded, models_loaded, dec, lowerbound,
                accuracies, params_used, v_idx, i_idx, a_idx, epsilon,
                correct, total, taken, attacks_run, json_written, p_error,
                ppc>>

testVars == <<all_attack, epsilons, save, y_clean, y_adv, x_clean, x_adv,
              correct_prediction, success_rate, ind_success, diff, norms,
              results_adv, printed, result, saved, t_error, tpc>>

searchVars == <<s_file, x_type, x, x_mean, x_std, target_rate, plus,
                alpha_min, alpha_max, alpha_now, mask, detect_rate, T,
                s_error, spc>>

vars == <<searchVars, testVars, loadVars, attackVars, logpVars,
         detectVars>>

---------------------------------------------------------------------------
(* Bounds of the model. *)
MaxLen == 3          \* longest statistic array
MaxVal == 1          \* statistics range over -MaxVal..MaxVal
MaxN == 5            \* most samples handed to test_attacks
FullN == 2           \* most samples with every combination of rows
LimbBits == 12       \* binary digits of a limb of a float64's significand
MaxIndex == 1        \* largest checkpoint index handed to load_model
MaxParams == 2       \* longest sticker_sizes and epsilons

(* Constants of the program. *)
MaxSteps == 20       \* search_alpha: "T < 20"
AlphaTop == 3        \* search_alpha: alpha_max = 3.0
Percent == 100       \* comp_detect: "detect_rate * 100"
Sig == 53            \* np.float64: binary digits of a significand
SubsetSize == 10     \* perform_attacks: Subset(test_dataset, range(10))

AlphaScale == 2 ^ (MaxSteps + 1)

---------------------------------------------------------------------------
(* Natural numbers of any size: the digits of base Base = 2^LimbBits, the  *)
(* most significant first, with any number of leading zeros.  An integer   *)
(* argument k is below 2^(31 - LimbBits) where it multiplies or divides.   *)
Base == 2 ^ LimbBits

RECURSIVE NatOfInt(_)
NatOfInt(k) ==
    IF k < Base THEN <<k>> ELSE NatOfInt(k \div Base) \o <<k % Base>>

Zeros(n) == [j \in 1..n |-> 0]

Front(a) == SubSeq(a, 1, Len(a) - 1)

Last(a) == a[Len(a)]

(* a * k + carry *)
RECURSIVE MulAdd(_, _, _)
MulAdd(a, k, carry) ==
    IF a = <<>> THEN NatOfInt(carry)
    ELSE LET t == Last(a) * k + carry
         IN  MulAdd(Front(a), k, t \div Base) \o <<t % Base>>

MulInt(a, k) == MulAdd(a, k, 0)

(* a - b - borrow, for a >= b + borrow of equal length. *)
RECURSIVE SubFrom(_, _, _)
SubFrom(a, b, borrow) ==
    IF a = <<>> THEN <<>>
    ELSE LET t == Last(a) - Last(b) - borrow
         IN  SubFrom(Front(a), Front(b), IF t < 0 THEN 1 ELSE 0)
                \o <<IF t < 0 THEN t + Base ELSE t>>

(* a < b, of equal length. *)
RECURSIVE LtFrom(_, _, _)
LtFrom(a, b, j) ==
    IF j > Len(a) THEN FALSE
    ELSE IF a[j] # b[j] THEN a[j] < b[j]
    ELSE LtFrom(a, b, j + 1)

(* The number of binary digits of an integer v >= 0, and of a natural. *)
RECURSIVE BitLen(_)
BitLen(v) == IF v = 0 THEN 0 ELSE 1 + BitLen(v \div 2)

RECURSIVE BitsFrom(_, _)
BitsFrom(a, j) ==
    IF j > Len(a) THEN 0
    ELSE IF a[j] # 0 THEN (Len(a) - j) * LimbBits + BitLen(a[j])
    ELSE BitsFrom(a, j + 1)

Bits(a) == BitsFrom(a, 1)

(* a * 2^s *)
ShiftLeft(a, s) == MulInt(a, 2 ^ (s % LimbBits)) \o Zeros(s \div LimbBits)

(* a \div 2^s, and whether a binary 1 is lost by it. *)
ShiftRight(a, s) ==
    LET kept == SubSeq(a, 1, Len(a) - (s \div LimbBits))
        b == s % LimbBits
    IN  SubSeq([j \in 1..Len(kept) |->
                   (IF j > 1 THEN (kept[j - 1] % (2 ^ b)) * (2 ^ (LimbBits - b))
                             ELSE 0) + (kept[j] \div (2 ^ b))],
               1, Len(kept))

Lost(a, s) ==
    \/ \E j \in (Len(a) - (s \div LimbBits) + 1)..Len(a) : a[j] # 0
    \/ /\ Len(a) > s \div LimbBits
       /\ a[Len(a) - (s \div LimbBits)] % (2 ^ (s % LimbBits)) # 0

---------------------------------------------------------------------------
(* float64.  A number is its sign, and man * 2^exp with man a natural of   *)
(* exactly Sig binary digits, in MantLimbs limbs; zero has man and exp 0.  *)
(* Neither a subnormal nor an overflow arises from the integers of the     *)
(* model.                                                                  *)
MantLimbs == (Sig + LimbBits - 1) \div LimbBits

Fit(a) == LET p == Zeros(MantLimbs) \o a
          IN  SubSeq(p, Len(p) - MantLimbs + 1, Len(p))

F64NaN == [nan |-> TRUE, neg |-> FALSE, exp |-> 0, man |-> Fit(<<>>)]

Zero == [nan |-> FALSE, neg |-> FALSE, exp |-> 0, man |-> Fit(<<>>)]

Float(e, m) == [nan |-> FALSE, neg |-> FALSE, exp |-> e, man |-> Fit(m)]

(* The float64 nearest to a * 2^e, ties to even. *)
Round(a, e) ==
    LET n == Bits(a)
    IN  IF n = 0 THEN Zero
        ELSE IF n <= Sig THEN Float(e - (Sig - n), ShiftLeft(a, Sig - n))
        ELSE LET s == n - Sig - 1
                 m1 == ShiftRight(a, s)
                 m0 == ShiftRight(m1, 1)
                 up == /\ Last(m1) % 2 = 1
                       /\ Lost(a, s) \/ Last(m0) % 2 = 1
                 m == IF up THEN MulAdd(m0, 1, 1) ELSE m0
             IN  IF Bits(m) > Sig THEN Float(e + s + 2, ShiftRight(m, 1))
                                  ELSE Float(e + s + 1, m)

FromInt(k) == Round(NatOfInt(k), 0)

(* The first n limbs after the point of r / d, 0 <= r < d, and what is     *)
(* left: <<the limbs, the remainder>>.                                     *)
RECURSIVE DivFrom(_, _, _)
DivFrom(r, d, n) ==
    IF n = 0 THEN <<<<>>, r>>
    ELSE LET q == DivFrom((r * Base) % d, d, n - 1)
         IN  <<<<(r * Base) \div d>> \o q[1], q[2]>>

(* The limbs after the point that hold the Sig + 1 leading binary digits   *)
(* of any quotient r / d > 0.                                              *)
DivLimbs == ((31 - LimbBits + Sig + 1) \div LimbBits) + 1

(* c / d in float64, c >= 0 and d > 0 integers: the quotient to DivLimbs   *)
(* limbs after the point and one more, which is 1 when a remainder is      *)
(* left, so that rounding it rounds c / d.                                 *)
F64Div(c, d) ==
    LET q == DivFrom(c % d, d, DivLimbs)
    IN  Round(NatOfInt(c \div d) \o q[1] \o <<IF q[2] # 0 THEN 1 ELSE 0>>,
              -((DivLimbs + 1) * LimbBits))

(* a * k in float64, k >= 0 an integer. *)
F64Mul(a, k) ==
    IF a.nan THEN F64NaN
    ELSE [Round(MulInt(a.man, k), a.exp) EXCEPT !.neg = a.neg]

(* |a| < |b| *)
Lt(a, b) ==
    IF Bits(b.man) = 0 THEN FALSE
    ELSE IF Bits(a.man) = 0 THEN TRUE
    ELSE a.exp < b.exp \/ (a.exp = b.exp /\ LtFrom(a.man, b.man, 1))

(* |a| - |b| in float64, |a| >= |b|. *)
SubMag(a, b) ==
    IF Bits(b.man) = 0 THEN [a EXCEPT !.neg = FALSE]
    ELSE LET m == ShiftLeft(a.man, a.exp - b.exp)
         IN  Round(SubFrom(m, Zeros(Len(m) - MantLimbs) \o b.man, 0), b.exp)

(* a - b in float64, a >= 0 and b >= 0. *)
F64Sub(a, b) ==
    IF a.nan \/ b.nan THEN F64NaN
    ELSE IF Lt(a, b) THEN [SubMag(b, a) EXCEPT !.neg = TRUE]
    ELSE SubMag(a, b)

(* np.abs(a) *)
F64Abs(a) == [a EXCEPT !.neg = FALSE]

(* np.abs(a - b) *)
F64AbsDiff(a, b) == F64Abs(F64Sub(a, b))

(* a > b: FALSE when either is NaN. *)
F64Gt(a, b) ==
    /\ ~a.nan /\ ~b.nan
    /\ IF a.neg THEN b.neg /\ Lt(a, b) ELSE b.neg \/ Lt(b, a)

Abs(n) == IF n < 0 THEN -n ELSE n

(* np.mean of a boolean array: the number of TRUE entries over the length, *)
(* NaN for an empty array.                                                 *)
RECURSIVE CountTrue(_)
CountTrue(b) ==
    IF b = <<>> THEN 0
    ELSE (IF Head(b) THEN 1 ELSE 0) + CountTrue(Tail(b))

MeanBool(b) == IF Len(b) = 0 THEN F64NaN ELSE F64Div(CountTrue(b), Len(b))

---------------------------------------------------------------------------
(* comp_detect: the element-wise comparison, then 100 * its mean. *)
DetectMask(xs, m, s, a, p) ==
    [i \in 1..Len(xs) |->
        IF p THEN xs[i] * AlphaScale > m * AlphaScale + a * s
             ELSE xs[i] * AlphaScale < m * AlphaScale - a * s]

(* detect_attacks_logp_v2.py, lines 114-118. *)
comp_detect(xs, m, s, a, p) ==
    F64Mul(MeanBool(DetectMask(xs, m, s, a, p)), Percent)

(* detect_attacks_logp.py, lines 67-70: torch.mean of the comparison's     *)
(* result.  torch.mean takes tensors of floating point or complex dtype:   *)
(* of the boolean tensor that comparing a Tensor gives it raises           *)
(* RuntimeError, and of the boolean ndarray that comparing an ndarray      *)
(* gives, which is no Tensor, TypeError.                                   *)
TorchMeanBool(type) == IF type = "Tensor" THEN "RuntimeError" ELSE "TypeError"

V1 == "detect_attacks_logp.py"

V2 == "detect_attacks_logp_v2.py"

(* A call of the comp_detect of `file`: what it raises, and otherwise what *)
(* it returns.                                                             *)
CompDetectCall(file, type, xs, m, s, a, p) ==
    IF file = V1
    THEN [error |-> TorchMeanBool(type), rate |-> F64NaN]
    ELSE [error |-> "none", rate |-> comp_detect(xs, m, s, a, p)]

(* The tolerance 0.01 of the loop test. *)
Tolerance == F64Div(1, 100)

(* The loop test of search_alpha:                                          *)
(*   np.abs(detect_rate - target_rate) > 0.01 and T < 20                   *)
OffTarget(rate, target) == F64Gt(F64AbsDiff(rate, target), Tolerance)

(* Line 134: alpha_now = 0.5 * (alpha_min + alpha_max). *)
MidpointLow(lo, hi) == lo

Midpoint(lo, hi) == (lo + hi) \div 2

LoopTestOneMore(rate, target, t) == OffTarget(rate, target) /\ t <= MaxSteps

LoopTest(rate, target, t) == OffTarget(rate, target) /\ t < MaxSteps

---------------------------------------------------------------------------
(* The module attack_black_box.py *)
(* The top-level text of attack_black_box.py, in order: the imports and    *)
(* the definitions with the names each binds, and line 100, a leftover     *)
(* conflict marker, which is not a Python statement.                       *)
TopLevel ==
    <<[lines |-> <<1, 4>>, statement |-> TRUE,
       binds |-> {"argparse", "json", "os", "warnings"}],
      [lines |-> <<6, 10>>, statement |-> TRUE,
       binds |-> {"plt", "np", "torch", "cm", "tqdm"}],
      [lines |-> <<12, 14>>, statement |-> TRUE,
       binds |-> {"bayes_classifier", "construct_optimizer",
                  "gaussian_perturbation_attack", "sticker_attack",
                  "load_data", "load_model", "load_params"}],
      [lines |-> <<17, 99>>, statement |-> TRUE, binds |-> {"load_model"}],
      [lines |-> <<100, 100>>, statement |-> FALSE, binds |-> {}],
      [lines |-> <<103, 249>>, statement |-> TRUE,
       binds |-> {"perform_attacks"}],
      [lines |-> <<252, 308>>, statement |-> TRUE,
       binds |-> {"plot_results"}],
      [lines |-> <<311, 388>>, statement |-> TRUE, binds |-> {}]>>

(* Python compiles the whole file before it runs any statement of it: a    *)
(* line that is no statement is a SyntaxError, for `import                 *)
(* attack_black_box` as for `python attack_black_box.py`.                  *)
Compiles(text) == \A k \in 1..Len(text) : text[k].statement

(* The names the module binds once imported: those of its imports and      *)
(* definitions when the file compiles, and none when it does not.          *)
ModuleNames ==
    IF Compiles(TopLevel)
    THEN UNION {TopLevel[k].binds : k \in 1..Len(TopLevel)}
    ELSE {}

---------------------------------------------------------------------------
(* load_model (attack_black_box.py) *)
VaeLetters == {"A", "B", "C", "D", "E", "F", "G"}

NoConfig == [error |-> "none"]

(* Lines 32-84: the generator and encoder classes and the sizes, or the    *)
(* ValueError of an unknown vae_type (lines 48, 72) or dataset (line 81).  *)
SelectConfig(dn, vt) ==
    IF dn = "mnist"
    THEN IF vt \in VaeLetters
         THEN [error |-> "none",
               generator |-> "models.conv_generator_mnist_" \o vt,
               encoder |-> "models.conv_encoder_mnist",
               input_shape |-> <<1, 28, 28>>,
               n_channel |-> 64, dimZ |-> 64, dimH |-> 500, dimY |-> 10]
         ELSE [error |-> "ValueError"]
    ELSE IF dn = "cifar10" \/ dn = "gtsrb"
    THEN IF vt \in VaeLetters
         THEN [error |-> "none",
               generator |-> "models.conv_generator_cifar10_" \o vt,
               encoder |-> "models.conv_encoder_cifar10",
               input_shape |-> <<3, 32, 32>>,
               n_channel |-> 128, dimZ |-> 128, dimH |-> 1000,
               dimY |-> IF dn = "gtsrb" THEN 43 ELSE 10]
         ELSE [error |-> "ValueError"]
    ELSE [error |-> "ValueError"]

(* Lines 89-90: path_name and filename. *)
CheckpointFile(dn, vt, dimZ) ==
    "save/" \o (dn \o "_conv_vae_" \o vt \o "_" \o ToString(dimZ) \o "/")
            \o "checkpoint"

LoadIdle ==
    /\ l_data_name = "" /\ l_vae_type = "" /\ l_index = 0
    /\ l_cfg = NoConfig /\ l_built = {} /\ l_loaded = <<>>
    /\ l_error = "none" /\ lpc = "idle"

(* The call. *)
LoadInit ==
    /\ l_data_name \in {"mnist", "cifar10", "gtsrb", "svhn", "MNIST"}
    /\ l_vae_type \in VaeLetters \cup {"H", "a"}
    /\ l_index \in 0..MaxIndex
    /\ l_cfg = NoConfig /\ l_built = {} /\ l_loaded = <<>>
    /\ l_error = "none" /\ lpc = "start"

(* Lines 32-84. *)
LoadSelect ==
    /\ lpc = "start"
    /\ LET c == SelectConfig(l_data_name, l_vae_type)
       IN  IF c.error = "none"
           THEN /\ l_cfg' = c
                /\ lpc' = "selected"
                /\ UNCHANGED l_error
           ELSE /\ l_error' = c.error
                /\ lpc' = "raised"
                /\ UNCHANGED l_cfg
    /\ UNCHANGED <<l_data_name, l_vae_type, l_index, l_built, l_loaded>>
    /\ UNCHANGED <<searchVars, testVars, attackVars, logpVars,
                   detectVars>>

(* Lines 86-87: the generator, then the encoder. *)
LoadConstruct ==
    /\ lpc = "selected"
    /\ l_built' = {[class |-> l_cfg.generator, name |-> "gen",
                    input_shape |-> l_cfg.input_shape, dimH |-> l_cfg.dimH,
                    dimZ |-> l_cfg.dimZ, dimY |-> l_cfg.dimY,
                    n_channel |-> l_cfg.n_channel],
                   [class |-> l_cfg.encoder, name |-> "enc",
                    input_shape |-> l_cfg.input_shape, dimH |-> l_cfg.dimH,
                    dimZ |-> l_cfg.dimZ, dimY |-> l_cfg.dimY,
                    n_channel |-> l_cfg.n_channel]}
    /\ lpc' = "built"
    /\ UNCHANGED <<l_data_name, l_vae_type, l_index, l_cfg, l_loaded,
                   l_error>>
    /\ UNCHANGED <<searchVars, testVars, attackVars, logpVars,
                   detectVars>>

(* Lines 89-92: load_params((encoder, generator), filename, index). *)
LoadParams ==
    /\ lpc = "built"
    /\ l_loaded' = Append(l_loaded,
           [filename |-> CheckpointFile(l_data_name, l_vae_type, l_cfg.dimZ),
            index |-> l_index])
    /\ lpc' = "loaded"
    /\ UNCHANGED <<l_data_name, l_vae_type, l_index, l_cfg, l_built,
                   l_error>>
    /\ UNCHANGED <<searchVars, testVars, attackVars, logpVars,
                   detectVars>>

(* Lines 94-99: both moved to the device and returned. *)
LoadReturn ==
    /\ lpc = "loaded"
    /\ lpc' = "returned"
    /\ UNCHANGED <<l_data_name, l_vae_type, l_index, l_cfg, l_built,
                   l_loaded, l_error>>
    /\ UNCHANGED <<searchVars, testVars, attackVars, logpVars,
                   detectVars>>

(* A call of load_model by an importer of the module: the import compiles  *)
(* the file, and only a file that compiles binds load_model and lets its   *)
(* body run, a step at a time.                                             *)
LoadModel ==
    IF "load_model" \in ModuleNames
    THEN LoadSelect \/ LoadConstruct \/ LoadParams \/ LoadReturn
    ELSE /\ lpc = "start"
         /\ l_error' = "SyntaxError"
         /\ lpc' = "raised"
         /\ UNCHANGED <<l_data_name, l_vae_type, l_index, l_cfg, l_built,
                        l_loaded>>
         /\ UNCHANGED <<searchVars, testVars, attackVars, logpVars,
                        detectVars>>

LoadNext == LoadModel

---------------------------------------------------------------------------
(* test_attacks (detect_attacks_logp_v2.py).  Arrays are functions on      *)
(* 0..N-1, as in the source; an image is a single pixel.                   *)
Classes == {0, 1}

Rows(N) == 0..(N - 1)

NRows(a) == Cardinality(DOMAIN a)

(* np.argmax of a row: the first position of its largest entry. *)
ArgMax(row) ==
    CHOOSE c \in DOMAIN row :
        /\ \A d \in DOMAIN row : row[d] <= row[c]
        /\ \A d \in DOMAIN row : row[d] = row[c] => c <= d

(* np.where(b == v)[0] on rows from..N-1: the matching rows, increasing. *)
RECURSIVE WhereFrom(_, _, _)
WhereFrom(b, v, from) ==
    IF from \notin DOMAIN b THEN <<>>
    ELSE (IF b[from] = v THEN <<from>> ELSE <<>>) \o WhereFrom(b, v, from + 1)

WhereFalse(b) == WhereFrom(b, FALSE, 0)

(* correct_prediction = (np.argmax(y_adv, 1) == np.argmax(y_clean, 1)) *)
CorrectPrediction(adv, clean) ==
    [i \in DOMAIN adv |-> ArgMax(adv[i]) = ArgMax(clean[i])]

(* np.mean of a boolean array on 0..N-1, N > 0. *)
MeanRows(b) == F64Div(Cardinality({i \in DOMAIN b : b[i]}), NRows(b))

(* success_rate = 100.0 * (1 - np.mean(correct_prediction)) *)
SuccessRate(b) == F64Mul(F64Sub(FromInt(1), MeanRows(b)), Percent)

(* a[ind]: the rows of a that ind lists, in the order of ind. *)
Take(a, ind) == [k \in 1..Len(ind) |-> a[ind[k]]]

(* The three norms of each row of diff, over its one pixel; l2 as its     *)
(* square.                                                                 *)
Norms(d) ==
    [l2sq |-> [k \in 1..Len(d) |-> d[k] * d[k]],
     li   |-> [k \in 1..Len(d) |-> Abs(d[k])],
     l0   |-> [k \in 1..Len(d) |-> IF d[k] # 0 THEN 1 ELSE 0]]

NoSuccessLine == "No successful attacks found."

EmptyDict == [k \in {} |-> 0]

OneHot(c) == [d \in Classes |-> IF d = c THEN 1 ELSE 0]

(* results_adv before line 283 has bound it. *)
NotComputed == [computed |-> FALSE, rows |-> <<>>]

(* The keys of the dictionary of lines 369-383. *)
ResultKeys ==
    {"success_rate", "mean_dist_l2", "std_dist_l2", "mean_dist_l0",
     "std_dist_l0", "mean_dist_li", "std_dist_li", "FP_logpx", "TP_logpx",
     "FP_logpxy", "TP_logpxy", "FP_kl", "TP_kl"}

(* Lines 390-398, with guard_name, data_name, victim_name and targeted at  *)
(* their defaults.                                                         *)
ResultsFile == "detection_results/bayes_model/mnist_mlp_untargeted.pkl"

TestIdle ==
    /\ all_attack = FALSE /\ epsilons = <<>> /\ save = FALSE
    /\ y_clean = <<>> /\ y_adv = <<>> /\ x_clean = <<>> /\ x_adv = <<>>
    /\ correct_prediction = <<>> /\ success_rate = Zero
    /\ ind_success = <<>> /\ diff = <<>> /\ norms = <<>>
    /\ results_adv = NotComputed
    /\ printed = <<>> /\ result = EmptyDict /\ saved = {}
    /\ t_error = "none" /\ tpc = "idle"

(* The arrays of a call on N samples: every combination of labels, victim  *)
(* outputs and pixels up to FullN samples; beyond, clean samples of class  *)
(* 0 and pixel 0, with every combination of one-hot victim outputs and     *)
(* adversarial pixels.                                                     *)
TestArrays(N) ==
    IF N <= FullN
    THEN [y_clean : [Rows(N) -> {OneHot(c) : c \in Classes}],
          y_adv : [Rows(N) -> [Classes -> {0, 1}]],
          x_clean : [Rows(N) -> {0, 1}],
          x_adv : [Rows(N) -> {0, 1}]]
    ELSE [y_clean : {[i \in Rows(N) |-> OneHot(0)]},
          y_adv : [Rows(N) -> {OneHot(c) : c \in Classes}],
          x_clean : {[i \in Rows(N) |-> 0]},
          x_adv : [Rows(N) -> {0, 1}]]

(* The call. *)
TestInit ==
    /\ all_attack \in BOOLEAN
    /\ epsilons \in {<<>>, <<1>>}
    /\ save \in BOOLEAN
    /\ \E N \in 1..MaxN : \E a \in TestArrays(N) :
        /\ y_clean = a.y_clean
        /\ y_adv = a.y_adv
        /\ x_clean = a.x_clean
        /\ x_adv = a.x_adv
    /\ correct_prediction = <<>> /\ success_rate = Zero
    /\ ind_success = <<>> /\ diff = <<>> /\ norms = <<>>
    /\ results_adv = NotComputed
    /\ printed = <<>> /\ result = EmptyDict /\ saved = {}
    /\ t_error = "none" /\ tpc = "start"

(* The attributes of the numpy module among those the file reads as np.*;  *)
(* logsumexp (lines 24, 64, 334, 351) is not one of them.                  *)
NumpyNames ==
    {"mean", "sqrt", "var", "sum", "where", "nanmean", "exp", "log",
     "array", "full", "nan", "newaxis", "argmax", "abs", "max", "isnan",
     "concatenate", "inf"}

(* Lines 177-185: with all_attack and a first epsilon, the first attack    *)
(* method's batch loop reads test_loader, a name bound nowhere in the      *)
(* function or the module.                                                 *)
EntersAttackLoop(all, eps) == all /\ eps # <<>>

TestAttackLoop ==
    /\ tpc = "start"
    /\ EntersAttackLoop(all_attack, epsilons)
    /\ tpc' = "raised"
    /\ t_error' = "NameError"
    /\ UNCHANGED <<all_attack, epsilons, save, y_clean, y_adv, x_clean,
                   x_adv, correct_prediction, success_rate, ind_success,
                   diff, norms, results_adv, printed, result, saved>>
    /\ UNCHANGED <<searchVars, loadVars, attackVars, logpVars,
                   detectVars>>

(* Lines 239-258: the guard model's logits of x_clean and x_adv. *)
TestLogits ==
    /\ tpc = "start"
    /\ ~EntersAttackLoop(all_attack, epsilons)
    /\ tpc' = "logits"
    /\ UNCHANGED <<all_attack, epsilons, save, y_clean, y_adv, x_clean,
                   x_adv, correct_prediction, success_rate, ind_success,
                   diff, norms, results_adv, printed, result, saved,
                   t_error>>
    /\ UNCHANGED <<searchVars, loadVars, attackVars, logpVars,
                   detectVars>>

(* Lines 260-267: the successful attacks, and the early return. *)
TestSuccess ==
    /\ tpc = "logits"
    /\ LET cp == CorrectPrediction(y_adv, y_clean)
           ind == WhereFalse(cp)
       IN  /\ correct_prediction' = cp
           /\ success_rate' = SuccessRate(cp)
           /\ ind_success' = ind
           /\ IF Len(ind) = 0
              THEN /\ printed' = Append(printed, NoSuccessLine)
                   /\ result' = EmptyDict
                   /\ tpc' = "returned"
              ELSE /\ tpc' = "norms"
                   /\ UNCHANGED <<printed, result>>
    /\ UNCHANGED <<all_attack, epsilons, save, y_clean, y_adv, x_clean,
                   x_adv, diff, norms, results_adv, saved, t_error>>
    /\ UNCHANGED <<searchVars, loadVars, attackVars, logpVars,
                   detectVars>>

(* Lines 269-276: the perturbation of the successful attacks. *)
TestNorms ==
    /\ tpc = "norms"
    /\ LET adv == Take(x_adv, ind_success)
           clean == Take(x_clean, ind_success)
           d == [k \in 1..Len(ind_success) |-> adv[k] - clean[k]]
       IN  /\ diff' = d
           /\ norms' = Norms(d)
           /\ printed' = printed \o <<"L_2", "L_inf", "L_0">>
    /\ tpc' = "logp"
    /\ UNCHANGED <<all_attack, epsilons, save, y_clean, y_adv, x_clean,
                   x_adv, correct_prediction, success_rate, ind_success,
                   results_adv, result, saved, t_error>>
    /\ UNCHANGED <<searchVars, loadVars, attackVars, logpVars,
                   detectVars>>

(* Lines 280-402.  Line 281 calls comp_logp on the training logits, and   *)
(* comp_logp starts by reading np.logsumexp (line 24), an attribute the    *)
(* numpy module does not have.  Were it there: the statistics of the       *)
(* training, the clean and (line 283) the successful adversarial rows, the *)
(* detection rates, the dictionary, and with save its file.                *)
TestCompLogp ==
    /\ tpc = "logp"
    /\ IF "logsumexp" \notin NumpyNames
       THEN /\ tpc' = "raised"
            /\ t_error' = "AttributeError"
            /\ UNCHANGED <<results_adv, printed, result, saved>>
       ELSE /\ results_adv' = [computed |-> TRUE, rows |-> ind_success]
            /\ printed' = printed
                   \o <<"train", "clean", "adv (wrong)",
                        "false alarm rate (logp(x)):",
                        "detection rate (logp(x)):",
                        "false alarm rate (logp(x|y)):",
                        "detection rate (logp(x|y)):",
                        "false alarm rate (KL):", "detection rate (KL):">>
                   \o (IF save THEN <<"results saved at">> ELSE <<>>)
            /\ result' = [k \in ResultKeys |->
                             IF k = "success_rate" THEN success_rate
                                                   ELSE ind_success]
            /\ saved' = IF save THEN {ResultsFile} ELSE {}
            /\ tpc' = "returned"
            /\ UNCHANGED t_error
    /\ UNCHANGED <<all_attack, epsilons, save, y_clean, y_adv, x_clean,
                   x_adv, correct_prediction, success_rate, ind_success,
                   diff, norms>>
    /\ UNCHANGED <<searchVars, loadVars, attackVars, logpVars,
                   detectVars>>

TestNext ==
    \/ TestAttackLoop
    \/ TestLogits
    \/ TestSuccess
    \/ TestNorms
    \/ TestCompLogp


---------------------------------------------------------------------------
(* comp_logp (detect_attacks_logp_v2.py).  A statistic is kept as the rows *)
(* it is taken over, and a mean as an exact fraction as well; NaN is the   *)
(* entry with nan = TRUE.                                                  *)

NbClasses(y) == Cardinality(DOMAIN y[0])

(* np.where(y[:, i] == 1)[0] *)
ClassRows(y, i) == WhereFrom([r \in DOMAIN y |-> y[r][i] = 1], TRUE, 0)

(* logpxy = np.sum(y * logit, axis=1), one entry per row. *)
RECURSIVE SumOver(_, _)
SumOver(f, S) ==
    IF S = {} THEN 0
    ELSE LET e == CHOOSE e \in S : TRUE IN f[e] + SumOver(f, S \ {e})

LogPxy(logit, y) ==
    [r \in DOMAIN y |->
        SumOver([c \in DOMAIN y[r] |-> y[r][c] * logit[r][c]], DOMAIN y[r])]

NaN == [nan |-> TRUE, over |-> <<>>, sum |-> 0]

(* A statistic of the rows ind of a: the rows, and the sum of a over them. *)
StatOver(a, ind) ==
    [nan |-> FALSE, over |-> ind,
     sum |-> SumOver(a, {ind[k] : k \in 1..Len(ind)})]

(* Lines 32-40 and 56-102: one entry per class, appended in class order:   *)
(* the statistic of the class's rows, or NaN when it has none.             *)
PerClass(a, y) ==
    [k \in 1..NbClasses(y) |->
        LET ind == ClassRows(y, k - 1)
        IN  IF Len(ind) > 0 THEN StatOver(a, ind) ELSE NaN]

AllRows(a) == WhereFrom([r \in DOMAIN a |-> TRUE], TRUE, 0)

(* Lines 45 and 104: the list comp_logp builds. *)
CompLogpResults(logit, y, dist) ==
    LET logpxy == LogPxy(logit, y)
        zero == [r \in DOMAIN y |-> 0]
        base == <<StatOver(zero, AllRows(logit)),
                  StatOver(zero, AllRows(logit)),
                  StatOver(zero, AllRows(logit)),
                  logpxy,
                  PerClass(logpxy, y),
                  PerClass(logpxy, y)>>
    IN  IF dist
        THEN base \o <<PerClass(zero, y), PerClass(zero, y),
                       PerClass(zero, y), PerClass(zero, y),
                       PerClass(zero, y)>>
        ELSE base

LogpIdle ==
    /\ c_logit = <<>> /\ c_y = <<>> /\ c_dist = FALSE
    /\ c_results = <<>> /\ c_error = "none" /\ cpc = "idle"

(* The call. *)
LogpInit ==
    /\ \E N \in 1..MaxN :
        /\ c_y \in [Rows(N) -> {OneHot(c) : c \in Classes}]
        /\ c_logit \in [Rows(N) -> [Classes -> {0, 1}]]
    /\ c_dist \in BOOLEAN
    /\ c_results = <<>> /\ c_error = "none" /\ cpc = "start"

(* Lines 24-106.  Line 24 reads np.logsumexp first of all. *)
CompLogp ==
    /\ cpc = "start"
    /\ IF "logsumexp" \notin NumpyNames
       THEN /\ c_error' = "AttributeError"
            /\ cpc' = "raised"
            /\ UNCHANGED c_results
       ELSE /\ c_results' = CompLogpResults(c_logit, c_y, c_dist)
            /\ cpc' = "returned"
            /\ UNCHANGED c_error
    /\ UNCHANGED <<c_logit, c_y, c_dist>>
    /\ UNCHANGED <<searchVars, testVars, loadVars, attackVars,
                   detectVars>>

LogpNext == CompLogp

---------------------------------------------------------------------------
(* perform_attacks (attack_black_box.py) *)
vae_types == <<"A", "B", "C", "D", "E", "F", "G">>

attack_methods == <<"SimBA", "Gaussian", "Sticker">>

AttackSet == {attack_methods[k] : k \in 1..Len(attack_methods)}

(* The function each attack's branch calls (lines 205-224). *)
AttackFunction(attack) ==
    CASE attack = "Sticker" -> "sticker_attack"
      [] attack = "SimBA" -> "simba"
      [] attack = "Gaussian" -> "gaussian_perturbation_attack"

(* Line 117: the asserted condition. *)
LengthsAgree(ss, eps) == Len(ss) = Len(eps)

(* Lines 130-131. *)
InputShapeOf(dn) == IF dn = "mnist" THEN <<1, 28, 28>> ELSE <<3, 32, 32>>

DimYOf(dn) == IF dn # "gtsrb" THEN 10 ELSE 43

(* Lines 145-167: the decoder pair and the lower bound of a variant. *)
DecoderPair(vt) ==
    CASE vt = "A" -> <<"pyz_params", "pxzy_params">>
      [] vt = "B" -> <<"pzy_params", "pxzy_params">>
      [] vt = "C" -> <<"pyzx_params", "pxz_params">>
      [] vt = "D" -> <<"pyzx_params", "pzx_params">>
      [] vt = "E" -> <<"pyz_params", "pzx_params">>
      [] vt = "F" -> <<"pyz_params", "pxz_params">>
      [] vt = "G" -> <<"pzy_params", "pxz_params">>

LowerBound(vt) == "lowerbound_" \o vt

(* Lines 190-193. *)
ParamFor(attack, i) ==
    IF attack = "Sticker" THEN sticker_sizes[i + 1] ELSE p_epsilons[i + 1]

(* The size of the batch test_loader yields after `drawn` examples. *)
BatchLen(drawn) ==
    IF SubsetSize - drawn < batch_size THEN SubsetSize - drawn
                                       ELSE batch_size

ParamLists == UNION {[1..n -> {1, 2}] : n \in 0..MaxParams}

NoAccuracies == [v \in {} |-> 0]

AttackIdle ==
    /\ p_data_name = "" /\ sticker_sizes = <<>> /\ p_epsilons = <<>>
    /\ batch_size = 1 /\ dir_exists = FALSE /\ dir_made = FALSE
    /\ dataset_loaded = FALSE
    /\ models_loaded = <<>> /\ dec = <<>> /\ lowerbound = ""
    /\ accuracies = NoAccuracies /\ params_used = NoAccuracies
    /\ v_idx = 0 /\ i_idx = 0 /\ a_idx = 0 /\ epsilon = 0
    /\ correct = 0 /\ total = 0 /\ taken = 0 /\ attacks_run = 0
    /\ json_written = FALSE /\ p_error = "none" /\ ppc = "idle"

(* The call. *)
AttackInit ==
    /\ p_data_name \in {"mnist", "cifar10", "gtsrb"}
    /\ sticker_sizes \in ParamLists
    /\ p_epsilons \in ParamLists
    /\ batch_size \in {4, 10, 100}
    /\ dir_exists \in BOOLEAN
    /\ dir_made = FALSE
    /\ dataset_loaded = FALSE
    /\ models_loaded = <<>> /\ dec = <<>> /\ lowerbound = ""
    /\ accuracies = NoAccuracies /\ params_used = NoAccuracies
    /\ v_idx = 0 /\ i_idx = 0 /\ a_idx = 0 /\ epsilon = 0
    /\ correct = 0 /\ total = 0 /\ taken = 0 /\ attacks_run = 0
    /\ json_written = FALSE /\ p_error = "none" /\ ppc = "start"

(* Lines 117-139: the assertion, then the directory, the dataset and the   *)
(* loader.                                                                 *)
PerformStart ==
    /\ ppc = "start"
    /\ IF ~LengthsAgree(sticker_sizes, p_epsilons)
       THEN /\ p_error' = "AssertionError"
            /\ ppc' = "raised"
            /\ UNCHANGED <<accuracies, params_used, dir_exists,
                           dir_made, dataset_loaded, v_idx>>
       ELSE /\ accuracies' = [v \in VaeLetters |-> EmptyDict]
            /\ params_used' = [v \in VaeLetters |-> EmptyDict]
            /\ dir_exists' = TRUE
            /\ dir_made' = TRUE
            /\ dataset_loaded' = TRUE
            /\ v_idx' = 1
            /\ ppc' = "variant"
            /\ UNCHANGED p_error
    /\ UNCHANGED <<p_data_name, sticker_sizes, p_epsilons, batch_size,
                   models_loaded, dec, lowerbound, i_idx, a_idx, epsilon,
                   correct, total, taken, attacks_run, json_written>>
    /\ UNCHANGED <<searchVars, testVars, loadVars, logpVars,
                   detectVars>>

(* Lines 141-196: one variant's model, decoder pair and empty lists, up to *)
(* the first configuration of its loops, or on to the next variant (or to  *)
(* the end of the loop over variants) when there is no configuration.      *)
PerformVariant ==
    /\ ppc = "variant"
    /\ LET vt == vae_types[v_idx]
           c == SelectConfig(p_data_name, vt)
       IN  IF c.error # "none"
           THEN /\ p_error' = c.error
                /\ ppc' = "raised"
                /\ UNCHANGED <<models_loaded, dec, lowerbound, accuracies,
                               params_used, v_idx, i_idx, a_idx, epsilon,
                               correct, total, taken>>
           ELSE /\ models_loaded' = Append(models_loaded,
                       [data_name |-> p_data_name, vae_type |-> vt,
                        checkpoint_index |-> 0])
                /\ dec' = DecoderPair(vt)
                /\ lowerbound' = LowerBound(vt)
                /\ accuracies' =
                       [accuracies EXCEPT ![vt] = [a \in AttackSet |-> <<>>]]
                /\ params_used' =
                       [params_used EXCEPT ![vt] = [a \in AttackSet |-> <<>>]]
                /\ UNCHANGED p_error
                /\ IF Len(sticker_sizes) > 0
                   THEN /\ i_idx' = 0
                        /\ a_idx' = 1
                        /\ epsilon' = ParamFor(attack_methods[1], 0)
                        /\ correct' = 0 /\ total' = 0 /\ taken' = 0
                        /\ ppc' = "batch"
                        /\ UNCHANGED v_idx
                   ELSE /\ IF v_idx < Len(vae_types)
                           THEN v_idx' = v_idx + 1 /\ ppc' = "variant"
                           ELSE UNCHANGED v_idx /\ ppc' = "save"
                        /\ UNCHANGED <<i_idx, a_idx, epsilon, correct,
                                       total, taken>>
    /\ UNCHANGED <<p_data_name, sticker_sizes, p_epsilons, batch_size,
                   dir_exists, dir_made, dataset_loaded, attacks_run, json_written>>
    /\ UNCHANGED <<searchVars, testVars, loadVars, logpVars,
                   detectVars>>

(* Lines 198-242: one batch of the loader: the attack, the classifier and  *)
(* the two counters; after the last batch the accuracy is appended and the *)
(* loops move on to the next configuration, variant or the end.            *)
PerformBatch ==
    /\ ppc = "batch"
    /\ LET attack == attack_methods[a_idx]
           vt == vae_types[v_idx]
           n == BatchLen(taken)
       IN  IF AttackFunction(attack) \notin ModuleNames
              THEN /\ taken' = taken + n
                   /\ p_error' = "NameError"
                   /\ ppc' = "raised"
                   /\ UNCHANGED <<accuracies, params_used, v_idx, i_idx,
                                  a_idx, epsilon, correct, total,
                                  attacks_run>>
              ELSE \E hits \in 0..n :
                   /\ attacks_run' = attacks_run + 1
                   /\ UNCHANGED p_error
                   /\ IF taken + n < SubsetSize
                      THEN /\ correct' = correct + hits
                           /\ total' = total + n
                           /\ taken' = taken + n
                           /\ UNCHANGED <<accuracies, params_used, v_idx,
                                          i_idx, a_idx, epsilon, ppc>>
                      ELSE /\ accuracies' =
                                [accuracies EXCEPT ![vt][attack] =
                                    Append(@, <<correct + hits, total + n>>)]
                           /\ params_used' =
                                [params_used EXCEPT ![vt][attack] =
                                    Append(@, epsilon)]
                           /\ IF a_idx < Len(attack_methods)
                              THEN /\ a_idx' = a_idx + 1
                                   /\ epsilon' =
                                        ParamFor(attack_methods[a_idx + 1],
                                                 i_idx)
                                   /\ correct' = 0 /\ total' = 0
                                   /\ taken' = 0
                                   /\ UNCHANGED <<v_idx, i_idx, ppc>>
                              ELSE IF i_idx + 1 < Len(sticker_sizes)
                              THEN /\ i_idx' = i_idx + 1
                                   /\ a_idx' = 1
                                   /\ epsilon' =
                                        ParamFor(attack_methods[1],
                                                 i_idx + 1)
                                   /\ correct' = 0 /\ total' = 0
                                   /\ taken' = 0
                                   /\ UNCHANGED <<v_idx, ppc>>
                              ELSE /\ correct' = correct + hits
                                   /\ total' = total + n
                                   /\ taken' = taken + n
                                   /\ UNCHANGED <<i_idx, a_idx, epsilon>>
                                   /\ IF v_idx < Len(vae_types)
                                      THEN v_idx' = v_idx + 1
                                           /\ ppc' = "variant"
                                      ELSE UNCHANGED v_idx /\ ppc' = "save"
    /\ UNCHANGED <<p_data_name, sticker_sizes, p_epsilons, batch_size,
                   dir_exists, dir_made, dataset_loaded, models_loaded, dec,
                   lowerbound, json_written>>
    /\ UNCHANGED <<searchVars, testVars, loadVars, logpVars,
                   detectVars>>

(* Lines 244-249: the JSON file, and the return of accuracies. *)
PerformSave ==
    /\ ppc = "save"
    /\ json_written' = TRUE
    /\ ppc' = "returned"
    /\ UNCHANGED <<p_data_name, sticker_sizes, p_epsilons, batch_size,
                   dir_exists, dir_made, dataset_loaded, models_loaded, dec,
                   lowerbound, accuracies, params_used, v_idx, i_idx, a_idx,
                   epsilon, correct, total, taken, attacks_run, p_error>>
    /\ UNCHANGED <<searchVars, testVars, loadVars, logpVars,
                   detectVars>>

(* A run of perform_attacks, by `python attack_black_box.py --compute` or  *)
(* by an importer of the module: the file is compiled first, and only a    *)
(* file that compiles binds perform_attacks and lets its body run, a step  *)
(* at a time.                                                              *)
PerformAttacks ==
    IF "perform_attacks" \in ModuleNames
    THEN PerformStart \/ PerformVariant \/ PerformBatch \/ PerformSave
    ELSE /\ ppc = "start"
         /\ p_error' = "SyntaxError"
         /\ ppc' = "raised"
         /\ UNCHANGED <<p_data_name, sticker_sizes, p_epsilons, batch_size,
                        dir_exists, dir_made, dataset_loaded, models_loaded,
                        dec, lowerbound, accuracies, params_used, v_idx,
                        i_idx, a_idx, epsilon, correct, total, taken,
                        attacks_run, json_written>>
         /\ UNCHANGED <<searchVars, testVars, loadVars, logpVars,
                        detectVars>>

PerformNext == PerformAttacks

---------------------------------------------------------------------------
(* test_attacks (detect_attacks_logp.py) and the G generator               *)
(* (models/conv_generator_cifar10_G.py).                                   *)
d_vae_types == <<"A", "B", "C", "D", "E", "F", "G">>

d_attack_methods == <<"FGSM", "PGD", "MIM">>

(* Lines 121-143: the decoder pair and the lower bound of a variant. *)
DetectDecoderPairGxzy(vt) ==
    CASE vt = "A" -> <<"pyz_params", "pxzy_params">>
      [] vt = "B" -> <<"pzy_params", "pxzy_params">>
      [] vt = "C" -> <<"pyzx_params", "pxz_params">>
      [] vt = "D" -> <<"pyzx_params", "pzx_params">>
      [] vt = "E" -> <<"pyz_params", "pzx_params">>
      [] vt = "F" -> <<"pyz_params", "pxz_params">>
      [] vt = "G" -> <<"pzy_params", "pxzy_params">>

DetectDecoderPair(vt) ==
    CASE vt = "A" -> <<"pyz_params", "pxzy_params">>
      [] vt = "B" -> <<"pzy_params", "pxzy_params">>
      [] vt = "C" -> <<"pyzx_params", "pxz_params">>
      [] vt = "D" -> <<"pyzx_params", "pzx_params">>
      [] vt = "E" -> <<"pyz_params", "pzx_params">>
      [] vt = "F" -> <<"pyz_params", "pxz_params">>
      [] vt = "G" -> <<"pzy_params", "pxz_params">>

DetectLowerBound(vt) == "lowerbound_" \o vt

(* The methods class Generator of conv_generator_cifar10_G.py defines. *)
GeneratorMethodsG == {"__init__", "pzy_params", "pxz_params"}

DetectIdle ==
    /\ d_data_name = "" /\ d_epsilons = <<>> /\ d_batch_size = 1
    /\ d_models = <<>> /\ d_dec = <<>> /\ d_lowerbound = ""
    /\ detection_rate = NoAccuracies /\ d_v_idx = 0 /\ d_e_idx = 0
    /\ detected = 0 /\ d_total = 0 /\ dpc = "idle"

(* The call. *)
DetectInit ==
    /\ d_data_name \in {"mnist", "cifar10", "gtsrb"}
    /\ d_epsilons \in ParamLists
    /\ d_batch_size \in {4, 10, 100}
    /\ d_models = <<>> /\ d_dec = <<>> /\ d_lowerbound = ""
    /\ detection_rate = NoAccuracies /\ d_v_idx = 0 /\ d_e_idx = 0
    /\ detected = 0 /\ d_total = 0 /\ dpc = "start"

(* Lines 108-111. *)
DetectStart ==
    /\ dpc = "start"
    /\ detection_rate' = [v \in VaeLetters |-> EmptyDict]
    /\ d_v_idx' = 1
    /\ dpc' = "variant"
    /\ UNCHANGED <<d_data_name, d_epsilons, d_batch_size, d_models, d_dec,
                   d_lowerbound, d_e_idx, detected, d_total>>
    /\ UNCHANGED <<searchVars, testVars, loadVars, attackVars, logpVars>>

(* After a variant's loop over epsilons: the next variant, or the end of   *)
(* the function.                                                           *)
DetectAfterEpsilons(v) ==
    IF v < Len(d_vae_types) THEN [v |-> v + 1, pc |-> "variant"]
                            ELSE [v |-> v, pc |-> "returned"]

(* Lines 113-160: one variant's model, decoder pair, loader and empty      *)
(* lists, up to its first epsilon.                                         *)
DetectVariant ==
    /\ dpc = "variant"
    /\ LET vt == d_vae_types[d_v_idx]
       IN  /\ d_models' = Append(d_models,
                  [data_name |-> d_data_name, vae_type |-> vt,
                   checkpoint_index |-> 0])
           /\ d_dec' = DetectDecoderPair(vt)
           /\ d_lowerbound' = DetectLowerBound(vt)
           /\ detection_rate' =
                  [detection_rate EXCEPT ![vt] =
                      [a \in {d_attack_methods[k] :
                                 k \in 1..Len(d_attack_methods)} |-> <<>>]]
    /\ IF Len(d_epsilons) > 0
       THEN /\ d_e_idx' = 1
            /\ dpc' = "epsilon"
            /\ UNCHANGED d_v_idx
       ELSE /\ d_v_idx' = DetectAfterEpsilons(d_v_idx).v
            /\ dpc' = DetectAfterEpsilons(d_v_idx).pc
            /\ UNCHANGED d_e_idx
    /\ UNCHANGED <<d_data_name, d_epsilons, d_batch_size, detected, d_total>>
    /\ UNCHANGED <<searchVars, testVars, loadVars, attackVars, logpVars>>

(* Lines 160-169: one epsilon: the counters reset, and every batch of the  *)
(* loader moved to the device, which is all the loop body does.            *)
DetectEpsilon ==
    /\ dpc = "epsilon"
    /\ detected' = 0
    /\ d_total' = 0
    /\ IF d_e_idx < Len(d_epsilons)
       THEN /\ d_e_idx' = d_e_idx + 1
            /\ UNCHANGED <<d_v_idx, dpc>>
       ELSE /\ d_v_idx' = DetectAfterEpsilons(d_v_idx).v
            /\ dpc' = DetectAfterEpsilons(d_v_idx).pc
            /\ UNCHANGED d_e_idx
    /\ UNCHANGED <<d_data_name, d_epsilons, d_batch_size, d_models, d_dec,
                   d_lowerbound, detection_rate>>
    /\ UNCHANGED <<searchVars, testVars, loadVars, attackVars, logpVars>>

DetectNext == DetectStart \/ DetectVariant \/ DetectEpsilon

---------------------------------------------------------------------------
(* search_alpha *)
Values == (-MaxVal)..MaxVal

Arrays == UNION {[1..n -> Values] : n \in 0..MaxLen}

Means == {-1, 0, 1}

Stds == {0, 1, 2}

(* target_rate: 0.0, the default 5.0, 33.33, 50.0 and NaN. *)
Targets == {F64Div(0, 100), F64Div(500, 100), F64Div(3333, 100),
            F64Div(5000, 100), F64NaN}

SearchIdle ==
    /\ s_file = "" /\ x_type = ""
    /\ x = <<>> /\ x_mean = 0 /\ x_std = 0 /\ target_rate = Zero
    /\ plus = FALSE /\ alpha_min = 0 /\ alpha_max = 0 /\ alpha_now = 0
    /\ mask = <<>> /\ detect_rate = Zero /\ T = 0
    /\ s_error = "none" /\ spc = "idle"

(* The call: of the NumPy copy on an ndarray, of the torch copy on a       *)
(* Tensor or an ndarray.                                                   *)
SearchInit ==
    /\ \/ s_file = V2 /\ x_type = "ndarray"
       \/ s_file = V1 /\ x_type \in {"Tensor", "ndarray"}
    /\ x \in Arrays
    /\ x_mean \in Means
    /\ x_std \in Stds
    /\ target_rate \in Targets
    /\ plus \in BOOLEAN
    /\ alpha_min = 0 /\ alpha_max = 0 /\ alpha_now = 0
    /\ mask = <<>> /\ detect_rate = Zero /\ T = 0
    /\ s_error = "none" /\ spc = "start"

(* The statements before the loop (v2 lines 124-128, v1 lines 74-78): the  *)
(* bracket, and the first call of comp_detect.                             *)
SearchEnter ==
    /\ spc = "start"
    /\ alpha_min' = 0
    /\ alpha_max' = AlphaTop * AlphaScale
    /\ alpha_now' = (AlphaTop * AlphaScale) \div 2
    /\ mask' = DetectMask(x, x_mean, x_std, alpha_now', plus)
    /\ LET r == CompDetectCall(s_file, x_type, x, x_mean, x_std,
                               alpha_now', plus)
       IN  IF r.error # "none"
           THEN /\ s_error' = r.error
                /\ spc' = "raised"
                /\ UNCHANGED <<detect_rate, T>>
           ELSE /\ detect_rate' = r.rate
                /\ T' = 0
                /\ spc' = "loop"
                /\ UNCHANGED s_error
    /\ UNCHANGED <<s_file, x_type, x, x_mean, x_std, target_rate, plus>>
    /\ UNCHANGED <<testVars, loadVars, attackVars, logpVars,
                   detectVars>>

(* One pass through the body of the while loop. *)
SearchStep ==
    /\ spc = "loop"
    /\ LoopTest(detect_rate, target_rate, T)
    /\ LET up == F64Gt(detect_rate, target_rate)
           lo == IF up THEN alpha_now ELSE alpha_min
           hi == IF up THEN alpha_max ELSE alpha_now
           now == Midpoint(lo, hi)
           r == CompDetectCall(s_file, x_type, x, x_mean, x_std, now, plus)
       IN  /\ alpha_min' = lo
           /\ alpha_max' = hi
           /\ alpha_now' = now
           /\ mask' = DetectMask(x, x_mean, x_std, now, plus)
           /\ IF r.error # "none"
              THEN /\ s_error' = r.error
                   /\ spc' = "raised"
                   /\ UNCHANGED <<detect_rate, T>>
              ELSE /\ detect_rate' = r.rate
                   /\ T' = T + 1
                   /\ UNCHANGED <<s_error, spc>>
    /\ UNCHANGED <<s_file, x_type, x, x_mean, x_std, target_rate, plus>>
    /\ UNCHANGED <<testVars, loadVars, attackVars, logpVars,
                   detectVars>>

(* The loop test fails: return alpha_now, detect_rate. *)
SearchReturn ==
    /\ spc = "loop"
    /\ ~LoopTest(detect_rate, target_rate, T)
    /\ spc' = "returned"
    /\ UNCHANGED <<s_file, x_type, x, x_mean, x_std, target_rate, plus,
                   alpha_min, alpha_max, alpha_now, mask, detect_rate, T,
                   s_error>>
    /\ UNCHANGED <<testVars, loadVars, attackVars, logpVars,
                   detectVars>>

SearchNext == SearchEnter \/ SearchStep \/ SearchReturn

InitSearch ==
    SearchInit /\ TestIdle /\ LoadIdle /\ AttackIdle /\ LogpIdle /\ DetectIdle

SpecSearch == InitSearch /\ [][SearchNext]_vars

InitTest ==
    TestInit /\ SearchIdle /\ LoadIdle /\ AttackIdle /\ LogpIdle /\ DetectIdle

SpecTest == InitTest /\ [][TestNext]_vars

InitLoad ==
    LoadInit /\ SearchIdle /\ TestIdle /\ AttackIdle /\ LogpIdle /\ DetectIdle

SpecLoad == InitLoad /\ [][LoadNext]_vars

InitAttack ==
    AttackInit /\ SearchIdle /\ TestIdle /\ LoadIdle /\ LogpIdle /\ DetectIdle

SpecAttack == InitAttack /\ [][PerformNext]_vars

InitLogp ==
    LogpInit /\ SearchIdle /\ TestIdle /\ LoadIdle /\ AttackIdle
        /\ DetectIdle

SpecLogp == InitLogp /\ [][LogpNext]_vars

InitDetect ==
    DetectInit /\ SearchIdle /\ TestIdle /\ LoadIdle /\ AttackIdle
        /\ LogpIdle

(* Either script's per-variant loop, run from its call. *)
InitVariants == InitAttack \/ InitDetect

VariantsNext ==
    \/ PerformAttacks
    \/ DetectStart
    \/ DetectVariant
    \/ DetectEpsilon

SpecVariants == InitVariants /\ [][VariantsNext]_vars

---------------------------------------------------------------------------
(* Claims about search_alpha and comp_detect. *)

Threshold == IF plus THEN x_mean * AlphaScale + alpha_now * x_std
                     ELSE x_mean * AlphaScale - alpha_now * x_std

DetectedSet ==
    {i \in 1..Len(x) : IF plus THEN x[i] * AlphaScale > Threshold
                               ELSE x[i] * AlphaScale < Threshold}

OnThreshold(i) == x[i] * AlphaScale = Threshold

(* |rate - target| <= 0.01 *)
WithinTolerance(rate, target) ==
    /\ ~rate.nan /\ ~target.nan
    /\ ~F64Gt(F64AbsDiff(rate, target), Tolerance)

\* C1 (as stated): for every input, the pair search_alpha returns satisfies
\* |detect_rate - target_rate| <= 0.01.
C1_ReturnsWithinTolerance ==
    spc = "returned" => WithinTolerance(detect_rate, target_rate)

\* C1 (amended): the search_alpha of detect_attacks_logp_v2.py returns
\* after at most 20 bisection steps, the rate it returns being comp_detect
\* at the alpha it returns; when it returns after fewer than 20 steps the
\* test |detect_rate - target_rate| > 0.01 is false of the pair, so that
\* the rate is within 0.01 of target_rate unless the difference is NaN (x
\* empty, or target_rate NaN; it then returns at once); after 20 steps it
\* returns the last midpoint whatever its rate.  The search_alpha of
\* detect_attacks_logp.py returns nothing: its first call of comp_detect
\* raises.
C1_ReturnsWithinToleranceOrAtCap ==
    /\ spc \in {"loop", "returned"} =>
        /\ s_file = V2
        /\ T <= MaxSteps
        /\ (spc = "loop" /\ T = MaxSteps) =>
              ~LoopTest(detect_rate, target_rate, T)
    /\ spc = "returned" =>
        /\ detect_rate = comp_detect(x, x_mean, x_std, alpha_now, plus)
        /\ T < MaxSteps => ~OffTarget(detect_rate, target_rate)
        /\ (T < MaxSteps /\ x # <<>> /\ target_rate # F64NaN) =>
              WithinTolerance(detect_rate, target_rate)
        /\ x = <<>> <=> detect_rate = F64NaN
        /\ (x = <<>> \/ target_rate = F64NaN) => T = 0
    /\ (s_file = V1 /\ spc \notin {"idle", "start"}) =>
        /\ spc = "raised"
        /\ s_error = TorchMeanBool(x_type)
    /\ s_file = V2 => (spc # "raised" /\ s_error = "none")

\* A search that took some steps and ended within the tolerance of a target
\* it does not hit exactly.
C1_WitnessConverged ==
    /\ spc = "returned"
    /\ T >= 1 /\ T < MaxSteps
    /\ WithinTolerance(detect_rate, target_rate)
    /\ detect_rate # target_rate

\* C2: comp_detect returns 100 times the fraction of the elements that lie
\* strictly beyond the threshold (above x_mean + alpha * x_std with plus,
\* below x_mean - alpha * x_std without); an element exactly on the
\* threshold is not detected.
C2_DetectStrict ==
    spc \notin {"idle", "start"} =>
        /\ s_error = "none"
        /\ Len(mask) = Len(x)
        /\ \A i \in 1..Len(x) : mask[i] <=> (i \in DetectedSet)
        /\ \A i \in 1..Len(x) : OnThreshold(i) => ~mask[i]
        /\ x # <<>> =>
              detect_rate =
                 F64Mul(F64Div(Cardinality(DetectedSet), Len(x)), Percent)

---------------------------------------------------------------------------
(* Claims about test_attacks. *)

Ended == tpc \in {"returned", "raised"}

SuccessfulRows ==
    {i \in DOMAIN y_adv : ArgMax(y_adv[i]) # ArgMax(y_clean[i])}

\* C3: called with all_attack = True, a non-empty epsilons and at least one
\* successful adversarial example, test_attacks ends by returning a
\* dictionary of detection statistics, without raising.
C3_RunsToCompletion ==
    (all_attack /\ epsilons # <<>> /\ SuccessfulRows # {} /\ Ended) =>
        /\ tpc = "returned"
        /\ t_error = "none"
        /\ "success_rate" \in DOMAIN result

\* C4: when no adversarial example is successful, test_attacks ends by
\* printing 'No successful attacks found.' and returning an empty
\* dictionary, with no norm computed and no file saved, whatever save is.
C4_NoSuccessReturnsEmpty ==
    (tpc # "idle" /\ SuccessfulRows = {} /\ Ended) =>
        /\ tpc = "returned"
        /\ result = EmptyDict
        /\ printed = <<NoSuccessLine>>
        /\ diff = <<>> /\ norms = <<>>
        /\ saved = {}

\* C5: test_attacks computes ind_success, the rows whose adversarial
\* prediction differs from the clean label, in increasing order, and
\* success_rate, equal to 100 * |ind_success| / N; and it computes the
\* perturbation norms and the logp and KL statistics of the adversarial
\* samples over the rows of ind_success, and over no other row.
C5_IndSuccess ==
    (tpc # "idle" /\ Ended) =>
        /\ {ind_success[k] : k \in 1..Len(ind_success)} = SuccessfulRows
        /\ \A k \in 1..(Len(ind_success) - 1) :
              ind_success[k] < ind_success[k + 1]
        /\ success_rate = F64Div(Percent * Len(ind_success), NRows(y_adv))
        /\ ind_success # <<>> =>
              /\ Len(diff) = Len(ind_success)
              /\ \A k \in 1..Len(diff) :
                    diff[k] = x_adv[ind_success[k]] - x_clean[ind_success[k]]
              /\ \A n \in {"l2sq", "li", "l0"} :
                    Len(norms[n]) = Len(ind_success)
              /\ results_adv.computed
              /\ results_adv.rows = ind_success

---------------------------------------------------------------------------
(* Claims about perform_attacks. *)

\* C6: when len(sticker_sizes) != len(epsilons), perform_attacks fails with
\* an AssertionError before any other effect: no directory made, no
\* dataset or model loaded, no attack run, no JSON file written.
C6_AssertBeforeEffects ==
    (ppc \notin {"idle", "start"}
        /\ Len(sticker_sizes) # Len(p_epsilons)) =>
        /\ ppc = "raised"
        /\ p_error = "AssertionError"
        /\ ~dir_made
        /\ ~dataset_loaded
        /\ models_loaded = <<>>
        /\ accuracies = NoAccuracies
        /\ attacks_run = 0
        /\ ~json_written

\* C7: perform_attacks, given lists of equal length, ends by returning, and
\* then accuracies[v][a] is, for each variant v and attack a, a list of
\* len(sticker_sizes) accuracies, the i-th measured with sticker_sizes[i]
\* for Sticker and epsilons[i] otherwise.
C7_EveryCombination ==
    (ppc \in {"returned", "raised"}
        /\ Len(sticker_sizes) = Len(p_epsilons)) =>
        /\ ppc = "returned"
        /\ \A v \in VaeLetters : \A a \in AttackSet :
              /\ a \in DOMAIN accuracies[v]
              /\ Len(accuracies[v][a]) = Len(sticker_sizes)
              /\ \A i \in 1..Len(sticker_sizes) :
                    params_used[v][a][i] =
                        IF a = "Sticker" THEN sticker_sizes[i]
                                         ELSE p_epsilons[i]

\* C8: in the batch loop every example drawn from the loader is counted:
\* total is the number of examples drawn so far, 0 <= correct <= total,
\* and every recorded accuracy is a correct / total with
\* 0 <= correct <= total and total > 0.
C8_CountersTrackExamples ==
    (ppc # "idle" /\ p_error # "AssertionError") =>
        /\ 0 <= correct /\ correct <= total
        /\ total = taken
        /\ \A v \in DOMAIN accuracies : \A a \in DOMAIN accuracies[v] :
              \A i \in 1..Len(accuracies[v][a]) :
                 LET acc == accuracies[v][a][i]
                 IN  0 <= acc[1] /\ acc[1] <= acc[2] /\ acc[2] > 0

\* The batch loop has counted an example or recorded an accuracy.
C8_LoopHasRun ==
    \/ total > 0
    \/ \E v \in DOMAIN accuracies : \E a \in DOMAIN accuracies[v] :
          accuracies[v][a] # <<>>

---------------------------------------------------------------------------
(* Claims about load_model. *)

KnownData == {"mnist", "cifar10", "gtsrb"}

\* C9: load_model raises ValueError for a data_name other than mnist,
\* cifar10 and gtsrb and for a vae_type other than A-G, having constructed
\* no encoder or generator and loaded no checkpoint.
C9_UnknownRaises ==
    (lpc \notin {"idle", "start"}
        /\ (l_data_name \notin KnownData \/ l_vae_type \notin VaeLetters)) =>
        /\ lpc = "raised"
        /\ l_error = "ValueError"
        /\ l_built = {}
        /\ l_loaded = <<>>

\* C10: the configuration depends on data_name alone: mnist gives
\* (1,28,28), 64 channels, dimZ 64, dimH 500; cifar10 and gtsrb give
\* (3,32,32), 128 channels, dimZ 128, dimH 1000; dimY is 43 for gtsrb and
\* 10 otherwise; the shape and dimY are those perform_attacks computes; and
\* the checkpoint read is save/<data_name>_conv_vae_<vae_type>_<dimZ>/
\* checkpoint, which a call with a known data_name and variant ends by
\* having loaded.
C10_ConfigFromDataName ==
    /\ (lpc \in {"returned", "raised"}
          /\ l_data_name \in KnownData /\ l_vae_type \in VaeLetters) =>
          lpc = "returned"
    /\ (lpc \in {"selected", "built", "loaded", "returned"}) =>
        /\ l_cfg.input_shape =
              (IF l_data_name = "mnist" THEN <<1, 28, 28>> ELSE <<3, 32, 32>>)
        /\ l_cfg.n_channel = (IF l_data_name = "mnist" THEN 64 ELSE 128)
        /\ l_cfg.dimZ = (IF l_data_name = "mnist" THEN 64 ELSE 128)
        /\ l_cfg.dimH = (IF l_data_name = "mnist" THEN 500 ELSE 1000)
        /\ l_cfg.dimY = (IF l_data_name = "gtsrb" THEN 43 ELSE 10)
        /\ l_cfg.input_shape = InputShapeOf(l_data_name)
        /\ l_cfg.dimY = DimYOf(l_data_name)
        /\ (lpc # "selected") =>
              \A o \in l_built :
                 /\ o.dimZ = l_cfg.dimZ /\ o.dimY = l_cfg.dimY
                 /\ o.dimH = l_cfg.dimH /\ o.n_channel = l_cfg.n_channel
                 /\ o.input_shape = l_cfg.input_shape
        /\ (lpc \in {"loaded", "returned"}) =>
              l_loaded =
                 <<[filename |->
                       "save/" \o l_data_name \o "_conv_vae_" \o l_vae_type
                          \o (IF l_data_name = "mnist" THEN "_64/checkpoint"
                                                     ELSE "_128/checkpoint"),
                    index |-> l_index]>>

---------------------------------------------------------------------------
(* The bracket of search_alpha. *)

BracketInv ==
    spc \notin {"idle", "start"} =>
        /\ 0 <= alpha_min /\ alpha_min <= alpha_now
        /\ alpha_now <= alpha_max /\ alpha_max <= AlphaTop * AlphaScale
        /\ 2 * alpha_now = alpha_min + alpha_max
        /\ (alpha_max - alpha_min) * (2 ^ T) = AlphaTop * AlphaScale

BracketStep ==
    (spc = "loop" /\ T' = T + 1) =>
        IF F64Gt(detect_rate, target_rate)
        THEN alpha_min' = alpha_now /\ alpha_max' = alpha_max
        ELSE alpha_max' = alpha_now /\ alpha_min' = alpha_min

\* C11: search_alpha keeps a bisection bracket: always
\* 0 <= alpha_min <= alpha_now <= alpha_max <= 3 with alpha_now the midpoint
\* and, after T steps, alpha_max - alpha_min = 3 / 2^T; a step moves
\* alpha_min up to the old alpha_now when the rate is above target_rate and
\* otherwise moves alpha_max down to it, leaving the other end alone.
C11_BisectionBracket == []BracketInv /\ [][BracketStep]_vars

\* A search that has moved both ends of the bracket.
C11_WitnessBothEnds ==
    /\ spc = "returned"
    /\ T >= 2
    /\ alpha_min > 0
    /\ alpha_max < AlphaTop * AlphaScale

---------------------------------------------------------------------------
(* Claims about comp_logp. *)

PerClassItems == IF c_dist THEN {5, 6, 7, 8, 9, 10, 11} ELSE {5, 6}

\* C12: comp_logp returns 6 items, or 11 with comp_logit_dist, and each of
\* its per-class lists has one entry per class, at the class's index: the
\* statistic of that class's rows, or NaN when the class has no row.
C12_PerClassLists ==
    (cpc \in {"returned", "raised"}) =>
        /\ cpc = "returned"
        /\ Len(c_results) = (IF c_dist THEN 11 ELSE 6)
        /\ \A n \in PerClassItems :
              /\ Len(c_results[n]) = NbClasses(c_y)
              /\ \A i \in 0..(NbClasses(c_y) - 1) :
                    LET rows == ClassRows(c_y, i)
                        e == c_results[n][i + 1]
                    IN  IF rows = <<>> THEN e.nan
                                       ELSE ~e.nan /\ e.over = rows

---------------------------------------------------------------------------
(* Claims about the per-variant branching. *)

ClaimedPair ==
    [v \in VaeLetters |->
        CASE v = "A" -> <<"pyz_params", "pxzy_params">>
          [] v = "B" -> <<"pzy_params", "pxzy_params">>
          [] v = "C" -> <<"pyzx_params", "pxz_params">>
          [] v = "D" -> <<"pyzx_params", "pzx_params">>
          [] v = "E" -> <<"pyz_params", "pzx_params">>
          [] v = "F" -> <<"pyz_params", "pxz_params">>
          [] v = "G" -> <<"pzy_params", "pxz_params">>]

ClaimedLowerBound ==
    [v \in VaeLetters |->
        CASE v = "A" -> "lowerbound_A" [] v = "B" -> "lowerbound_B"
          [] v = "C" -> "lowerbound_C" [] v = "D" -> "lowerbound_D"
          [] v = "E" -> "lowerbound_E" [] v = "F" -> "lowerbound_F"
          [] v = "G" -> "lowerbound_G"]

Selected(vt, pair, lb) ==
    /\ pair = ClaimedPair[vt]
    /\ lb = ClaimedLowerBound[vt]
    /\ vt = "G" => (pair[1] \in GeneratorMethodsG
                    /\ pair[2] \in GeneratorMethodsG)

\* C13: the branching of perform_attacks and that of test_attacks
\* (detect_attacks_logp.py) select, for each variant A-G, the lower bound
\* of the same letter and the same decoder pair (A: pyz,pxzy; B: pzy,pxzy;
\* C: pyzx,pxz; D: pyzx,pzx; E: pyz,pzx; F: pyz,pxz; G: pzy,pxz), each
\* what the other script selects, and for G both are methods of the G
\* generator.
C13_SameMapping ==
    /\ models_loaded # <<>> =>
          LET vt == models_loaded[Len(models_loaded)].vae_type
          IN  /\ Selected(vt, dec, lowerbound)
              /\ dec = DetectDecoderPair(vt)
              /\ lowerbound = DetectLowerBound(vt)
    /\ d_models # <<>> =>
          LET vt == d_models[Len(d_models)].vae_type
          IN  /\ Selected(vt, d_dec, d_lowerbound)
              /\ d_dec = DecoderPair(vt)
              /\ d_lowerbound = LowerBound(vt)

\* test_attacks has gone through all seven variants and holds G's pair.
C13_WitnessVariantG ==
    /\ dpc = "returned"
    /\ Len(d_models) = 7
    /\ d_models[7].vae_type = "G"
    /\ d_dec = <<"pzy_params", "pxz_params">>
    /\ d_epsilons # <<>>

===========================================================================
